---- MODULE Spec2Model ----
(***************************************************************************)
(* Verification model of app.py (thumbnail generator): the dimension       *)
(* normalisation and colour resolution of get_thumbnail, the row colours   *)
(* of generate_gradient and the font size of add_text_to_image.            *)
(*                                                                         *)
(* Python's float is IEEE-754 binary64.  The two float expressions of the  *)
(* program (app.py:56-57 and app.py:81) are evaluated here operation by    *)
(* operation with round-to-nearest-even on a 53 bit significand.  TLC's    *)
(* integers are 32 bit, so significands are kept as little-endian          *)
(* sequences of 15 bit limbs.  Every float of the program is >= 0 when the *)
(* colour channels are in 0..255, so floats carry no sign here.            *)
(***************************************************************************)
EXTENDS Integers, Sequences, FiniteSets, TLC

\* ------------------------------------------------------------------------
\* Natural numbers of arbitrary size: <<l1, l2, ...>> is l1 + l2*B + ...
\* with every limb in 0..B-1 and no zero limb at the top; <<>> is 0.
\* ------------------------------------------------------------------------
LimbBits == 15

B == 2 ^ LimbBits

Mant == 53

RECURSIVE BNorm(_)
BNorm(a) ==
  IF a = <<>> THEN <<>>
  ELSE IF a[Len(a)] = 0 THEN BNorm(SubSeq(a, 1, Len(a) - 1))
  ELSE a

RECURSIVE BFromInt(_)
BFromInt(n) == IF n = 0 THEN <<>> ELSE <<n % B>> \o BFromInt(n \div B)

RECURSIVE BToInt(_)
BToInt(a) == IF a = <<>> THEN 0 ELSE a[1] + B * BToInt(Tail(a))

BLimb(a, i) == IF i <= Len(a) THEN a[i] ELSE 0

BMaxLen(a, b) == IF Len(a) >= Len(b) THEN Len(a) ELSE Len(b)

RECURSIVE BAddC(_, _, _, _)
BAddC(a, b, i, carry) ==
  IF i > BMaxLen(a, b)
  THEN IF carry = 0 THEN <<>> ELSE <<carry>>
  ELSE LET s == BLimb(a, i) + BLimb(b, i) + carry
       IN  <<s % B>> \o BAddC(a, b, i + 1, s \div B)

BAdd(a, b) == BAddC(a, b, 1, 0)

\* a - b for a >= b
RECURSIVE BSubC(_, _, _, _)
BSubC(a, b, i, borrow) ==
  IF i > Len(a) THEN <<>>
  ELSE LET s == a[i] - BLimb(b, i) - borrow
       IN  IF s < 0 THEN <<s + B>> \o BSubC(a, b, i + 1, 1)
           ELSE <<s>> \o BSubC(a, b, i + 1, 0)

BSub(a, b) == BNorm(BSubC(a, b, 1, 0))

\* -1, 0, 1 as a < b, a = b, a > b (both normalised)
RECURSIVE BCmpAt(_, _, _)
BCmpAt(a, b, i) ==
  IF i = 0 THEN 0
  ELSE IF a[i] < b[i] THEN -1
  ELSE IF a[i] > b[i] THEN 1
  ELSE BCmpAt(a, b, i - 1)

BCmp(a, b) ==
  IF Len(a) < Len(b) THEN -1
  ELSE IF Len(a) > Len(b) THEN 1
  ELSE BCmpAt(a, b, Len(a))

\* a * s for 0 <= s <= B
RECURSIVE BMulSmallC(_, _, _, _)
BMulSmallC(a, s, i, carry) ==
  IF i > Len(a)
  THEN IF carry = 0 THEN <<>> ELSE <<carry>>
  ELSE LET p == a[i] * s + carry
       IN  <<p % B>> \o BMulSmallC(a, s, i + 1, p \div B)

BMulSmall(a, s) == IF s = 0 THEN <<>> ELSE BMulSmallC(a, s, 1, 0)

BZeros(k) == [i \in 1..k |-> 0]

BShlLimbs(a, k) == IF a = <<>> THEN <<>> ELSE BZeros(k) \o a

\* a * b, schoolbook over the limbs of a
RECURSIVE BMulAt(_, _, _)
BMulAt(a, b, i) ==
  IF i > Len(a) THEN <<>>
  ELSE BAdd(BShlLimbs(BMulSmall(b, a[i]), i - 1), BMulAt(a, b, i + 1))

BMul(a, b) == BMulAt(a, b, 1)

\* quotient and remainder of a by s, 1 <= s <= B, from the top limb down
RECURSIVE BDivSmallAt(_, _, _, _)
BDivSmallAt(a, s, i, rem) ==
  IF i = 0 THEN [q |-> <<>>, r |-> rem]
  ELSE LET cur  == rem * B + a[i]
           rest == BDivSmallAt(a, s, i - 1, cur % s)
       IN  [q |-> rest.q \o <<cur \div s>>, r |-> rest.r]

BDivSmall(a, s) ==
  LET d == BDivSmallAt(a, s, Len(a), 0) IN [q |-> BNorm(d.q), r |-> d.r]

\* a * 2^k
BShl(a, k) == BShlLimbs(BMulSmall(a, 2 ^ (k % LimbBits)), k \div LimbBits)

\* a \div 2^k, and whether a bit was dropped
BShr(a, k) ==
  LET nl   == k \div LimbBits
      low  == SubSeq(a, 1, IF nl <= Len(a) THEN nl ELSE Len(a))
      high == IF nl >= Len(a) THEN <<>> ELSE SubSeq(a, nl + 1, Len(a))
      d    == BDivSmall(high, 2 ^ (k % LimbBits))
  IN  [q |-> d.q, sticky |-> (d.r # 0) \/ (\E i \in 1..Len(low) : low[i] # 0)]

RECURSIVE BitLenSmall(_)
BitLenSmall(n) == IF n = 0 THEN 0 ELSE 1 + BitLenSmall(n \div 2)

BBitLen(a) ==
  IF a = <<>> THEN 0 ELSE LimbBits * (Len(a) - 1) + BitLenSmall(a[Len(a)])

BOdd(a) == a # <<>> /\ a[1] % 2 = 1

\* ------------------------------------------------------------------------
\* binary64 values >= 0: [m, e] is m * 2^e, m of at most 53 bits.
\* ------------------------------------------------------------------------

\* the float nearest to n * 2^e, ties to the even significand
FRound(n, e) ==
  LET len == BBitLen(n) IN
  IF len <= Mant THEN [m |-> n, e |-> e]
  ELSE LET k     == len - Mant
           s     == BShr(n, k - 1)
           q     == BDivSmall(s.q, 2).q
           guard == BOdd(s.q)
           up    == guard /\ (s.sticky \/ BOdd(q))
           q1    == IF up THEN BAdd(q, <<1>>) ELSE q
       IN  IF BBitLen(q1) > Mant
           THEN [m |-> BDivSmall(q1, 2).q, e |-> e + k + 1]
           ELSE [m |-> q1, e |-> e + k]

\* float(n) of an int n >= 0 (exact below 2^53)
FFromInt(n) == [m |-> BFromInt(n), e |-> 0]

\* x + y: the operand with the larger exponent is shifted down to the other
FAdd(x, y) ==
  IF x.e <= y.e
  THEN FRound(BAdd(x.m, BShl(y.m, y.e - x.e)), x.e)
  ELSE FRound(BAdd(BShl(x.m, x.e - y.e), y.m), y.e)

\* x - y for x >= y
FSub(x, y) ==
  IF x.e <= y.e
  THEN FRound(BSub(x.m, BShl(y.m, y.e - x.e)), x.e)
  ELSE FRound(BSub(BShl(x.m, x.e - y.e), y.m), y.e)

\* x * y
FMul(x, y) ==
  IF x.m = <<>> \/ y.m = <<>> THEN [m |-> <<>>, e |-> 0]
  ELSE FRound(BMul(x.m, y.m), x.e + y.e)

\* one limb of quotient: floor(rem * B / d) and the remainder, for rem < d and
\* a divisor whose top limb is at least B / 2; the estimate from the two top
\* limbs is then at most 2 too large (Knuth, TAOCP 4.3.1, Theorem B)
BDivDigit(rem, d) ==
  LET u    == BShlLimbs(rem, 1)
      n    == Len(d)
      est0 == (BLimb(u, n + 1) * B + BLimb(u, n)) \div d[n]
      est  == IF est0 > B - 1 THEN B - 1 ELSE est0
      qd   == IF BCmp(BMulSmall(d, est), u) <= 0 THEN est
              ELSE IF BCmp(BMulSmall(d, est - 1), u) <= 0 THEN est - 1
              ELSE est - 2
  IN  [q |-> qd, r |-> BSub(u, BMulSmall(d, qd))]

\* floor(rem * B^n / d) and the remainder, for rem < d, one limb at a time
RECURSIVE BLongDiv(_, _, _)
BLongDiv(rem, d, n) ==
  IF n = 0 THEN [q |-> <<>>, r |-> rem]
  ELSE IF rem = <<>> THEN [q |-> BZeros(n), r |-> <<>>]
  ELSE LET top  == BDivDigit(rem, d)
           rest == BLongDiv(top.r, d, n - 1)
       IN  [q |-> rest.q \o <<top.q>>, r |-> rest.r]

\* the least multiple of LimbBits that is >= k
LimbCeil(k) == LimbBits * ((k + LimbBits - 1) \div LimbBits)

\* x / y with the divisor shifted to t bits, a whole number of limbs, and the
\* dividend to t - 1 bits: the quotient is taken to 4 limbs (58 bits or more),
\* a sticky bit is appended for the remainder, and the result rounded
FDivAligned(x, y, t) ==
  LET sa == t - 1 - BBitLen(x.m)
      sd == t - BBitLen(y.m)
      n  == LimbCeil(Mant + 4) \div LimbBits
      qr == BLongDiv(BShl(x.m, sa), BShl(y.m, sd), n)
      q2 == BMulSmall(BNorm(qr.q), 2)
      e  == x.e - y.e - sa + sd - LimbBits * n - 1
  IN  IF qr.r = <<>> THEN FRound(q2, e) ELSE FRound(BAdd(q2, <<1>>), e)

\* x / y for y > 0
FDiv(x, y) ==
  IF x.m = <<>> THEN [m |-> <<>>, e |-> 0]
  ELSE IF BBitLen(x.m) + 1 > BBitLen(y.m)
  THEN FDivAligned(x, y, LimbCeil(BBitLen(x.m) + 1))
  ELSE FDivAligned(x, y, LimbCeil(BBitLen(y.m)))

\* int(x): the integer part of x >= 0
FTrunc(x) ==
  IF x.e >= 0 THEN BToInt(BShl(x.m, x.e)) ELSE BToInt(BShr(x.m, 0 - x.e).q)

\* ------------------------------------------------------------------------
\* generate_gradient (app.py:41-59)
\* ------------------------------------------------------------------------

\* mutant of RowFraction: the row counted from 1
RowFractionFromOne(y, h) == FDiv(FFromInt(y + 1), FFromInt(h))

\* r = y / height (app.py:56), int / int is float division
RowFraction(y, h) == FDiv(FFromInt(y), FFromInt(h))

\* int(color1[i] * (1 - r) + color2[i] * r) (app.py:57)
Channel(c1, c2, r) ==
  FTrunc(FAdd(FMul(FFromInt(c1), FSub(FFromInt(1), r)), FMul(FFromInt(c2), r)))

\* color = tuple(... for i in range(3)) (app.py:57)
RowColor(color1, color2, row, h) ==
  LET r == RowFraction(row, h)
  IN  [i \in 1..3 |-> Channel(color1[i], color2[i], r)]

\* Image.new("RGB", (width, height)) (app.py:53): every pixel black
NewImage(w, h) == [yy \in 0..(h - 1) |-> [xx \in 0..(w - 1) |-> <<0, 0, 0>>]]

\* draw.line((x0, row, x1, row), fill) (app.py:58): the pixels of the
\* horizontal segment that lie inside the image, both ends included
DrawLine(img, x0, row, x1, fill) ==
  IF row \in DOMAIN img
  THEN [img EXCEPT ![row] =
          [xx \in DOMAIN img[row] |->
             IF x0 <= xx /\ xx <= x1 THEN fill ELSE img[row][xx]]]
  ELSE img

\* ------------------------------------------------------------------------
\* add_text_to_image / get_font_size (app.py:62-92)
\* ------------------------------------------------------------------------
Abs(n) == IF n < 0 THEN 0 - n ELSE n

\* the literal 0.05 (app.py:81): the float nearest to 1/20
FiveHundredths == FDiv(FFromInt(1), FFromInt(20))

\* mutant of get_font_size: abs(length) instead of abs(20 - length)
get_font_size_no_offset(text) ==
  LET length == Len(text)
  IN  FTrunc(FDiv(FFromInt(100),
                  FAdd(FFromInt(1), FMul(FiveHundredths, FFromInt(Abs(length))))))

\* mutant of get_font_size: rounds half up instead of truncating
get_font_size_rounded(text) ==
  LET length == Len(text)
  IN  FTrunc(FAdd(FDiv(FFromInt(100),
                       FAdd(FFromInt(1),
                            FMul(FiveHundredths, FFromInt(Abs(20 - length))))),
                  FDiv(FFromInt(1), FFromInt(2))))

\* int(100 / (1 + 0.05 * abs(20 - length))) (app.py:80-82)
get_font_size(text) ==
  LET length == Len(text)
  IN  FTrunc(FDiv(FFromInt(100),
                  FAdd(FFromInt(1), FMul(FiveHundredths, FFromInt(Abs(20 - length))))))

\* ------------------------------------------------------------------------
\* get_thumbnail: dimension normalisation (app.py:111-130)
\* ------------------------------------------------------------------------

\* mutant of NormalizedWidth: the range test joined by "and" instead of "or"
NormalizedWidthAndGuard(w, min_width, max_width) ==
  IF w <= min_width /\ w >= max_width
  THEN LET distance_from_max_width == Abs(w - max_width)
           distance_from_min_width == Abs(w - min_width)
       IN  IF distance_from_max_width < distance_from_min_width
           THEN max_width
           ELSE min_width
  ELSE w

\* app.py:112-120, the new value of width
NormalizedWidth(w, min_width, max_width) ==
  IF w <= min_width \/ w >= max_width
  THEN LET distance_from_max_width == Abs(w - max_width)
           distance_from_min_width == Abs(w - min_width)
       IN  IF distance_from_max_width < distance_from_min_width
           THEN max_width
           ELSE min_width
  ELSE w

\* mutant of NormalizedHeight: the two distances compared the other way round
NormalizedHeightFlipped(h, min_height, max_height) ==
  IF h <= min_height \/ h >= max_height
  THEN LET distance_from_max_height == Abs(h - max_height)
           distance_from_min_height == Abs(h - min_height)
       IN  IF distance_from_max_height > distance_from_min_height
           THEN max_height
           ELSE min_height
  ELSE h

\* app.py:122-130, the new value of height
NormalizedHeight(h, min_height, max_height) ==
  IF h <= min_height \/ h >= max_height
  THEN LET distance_from_max_height == Abs(h - max_height)
           distance_from_min_height == Abs(h - min_height)
       IN  IF distance_from_max_height < distance_from_min_height
           THEN max_height
           ELSE min_height
  ELSE h

\* ------------------------------------------------------------------------
\* get_thumbnail: colour resolution (app.py:132-169)
\* A str is a sequence of one-character strings.
\* ------------------------------------------------------------------------
UpperCase == <<"A", "B", "C", "D", "E", "F", "X", "Z">>

LowerCase == <<"a", "b", "c", "d", "e", "f", "x", "z">>

\* str.lower() on one character (the letters that occur in the inputs)
LowerChar(c) ==
  IF \E i \in 1..Len(UpperCase) : UpperCase[i] = c
  THEN LowerCase[CHOOSE i \in 1..Len(UpperCase) : UpperCase[i] = c]
  ELSE c

\* str.lower()
Lower(s) == [i \in 1..Len(s) |-> LowerChar(s[i])]

\* str.lstrip("#"): every leading '#' goes
RECURSIVE LStripHash(_)
LStripHash(s) ==
  IF s # <<>> /\ s[1] = "#" THEN LStripHash(Tail(s)) ELSE s

\* s[i : i + 2] for a 0-based i: a slice never raises, it is cut at the end
Slice2(s, i) ==
  IF i >= Len(s) THEN <<>>
  ELSE SubSeq(s, i + 1, IF i + 2 <= Len(s) THEN i + 2 ELSE Len(s))

Whitespace == {" ", "\t", "\n"}

HexDigits == <<"0", "1", "2", "3", "4", "5", "6", "7", "8", "9",
               "a", "b", "c", "d", "e", "f">>

IsHexDigit(c) == \E i \in 1..16 : HexDigits[i] = LowerChar(c)

DigitValue(c) == (CHOOSE i \in 1..16 : HexDigits[i] = LowerChar(c)) - 1

RECURSIVE PyLStrip(_)
PyLStrip(s) ==
  IF s # <<>> /\ s[1] \in Whitespace THEN PyLStrip(Tail(s)) ELSE s

RECURSIVE PyRStrip(_)
PyRStrip(s) ==
  IF s # <<>> /\ s[Len(s)] \in Whitespace
  THEN PyRStrip(SubSeq(s, 1, Len(s) - 1))
  ELSE s

\* the digit part of an int literal: hex digits, single '_' between digits only
DigitsOk(d) ==
  /\ d # <<>>
  /\ \A i \in 1..Len(d) : IsHexDigit(d[i]) \/ d[i] = "_"
  /\ d[1] # "_"
  /\ d[Len(d)] # "_"
  /\ \A i \in 1..(Len(d) - 1) : ~(d[i] = "_" /\ d[i + 1] = "_")

RECURSIVE DigitsValue(_, _)
DigitsValue(d, acc) ==
  IF d = <<>> THEN acc
  ELSE IF d[1] = "_" THEN DigitsValue(Tail(d), acc)
  ELSE DigitsValue(Tail(d), 16 * acc + DigitValue(d[1]))

\* int(s, 16): surrounding whitespace, a sign and a 0x prefix are accepted;
\* ok = FALSE is ValueError
PyInt16(s) ==
  LET t      == PyRStrip(PyLStrip(s))
      signed == t # <<>> /\ t[1] \in {"+", "-"}
      u      == IF signed THEN Tail(t) ELSE t
      prefix == Len(u) >= 2 /\ u[1] = "0" /\ u[2] \in {"x", "X"}
      v      == IF prefix THEN SubSeq(u, 3, Len(u)) ELSE u
      d      == IF prefix /\ v # <<>> /\ v[1] = "_" THEN Tail(v) ELSE v
      ok     == DigitsOk(d)
      mag    == IF ok THEN DigitsValue(d, 0) ELSE 0
  IN  [ok |-> ok, val |-> IF signed /\ t[1] = "-" THEN 0 - mag ELSE mag]

\* mutant of ParseHexColor: the slices start at 0, 1, 2 instead of 0, 2, 4
ParseHexColorOffsets(s) ==
  LET c  == Lower(LStripHash(s))
      p0 == PyInt16(Slice2(c, 0))
      p2 == PyInt16(Slice2(c, 1))
      p4 == PyInt16(Slice2(c, 2))
  IN  [ok |-> p0.ok /\ p2.ok /\ p4.ok, rgb |-> <<p0.val, p2.val, p4.val>>]

\* app.py:140-144 and 159-163: lstrip("#").lower(), then
\* tuple(int(c[i : i + 2], 16) for i in (0, 2, 4)); ok = FALSE is ValueError
ParseHexColor(s) ==
  LET c  == Lower(LStripHash(s))
      p0 == PyInt16(Slice2(c, 0))
      p2 == PyInt16(Slice2(c, 2))
      p4 == PyInt16(Slice2(c, 4))
  IN  [ok |-> p0.ok /\ p2.ok /\ p4.ok, rgb |-> <<p0.val, p2.val, p4.val>>]

\* text.replace("_", " ").replace("-", " ") (app.py:177)
ReplaceSeparators(s) ==
  [i \in 1..Len(s) |-> IF s[i] \in {"_", "-"} THEN " " ELSE s[i]]

\* ------------------------------------------------------------------------
\* State: the locals of one get_thumbnail call and the settings it imports.
\* ------------------------------------------------------------------------
VARIABLES
  API_THUMBNAIL_MIN_WIDTH,   \* config, imported at app.py:22
  API_THUMBNAIL_MAX_WIDTH,   \* config, imported at app.py:20
  API_THUMBNAIL_MIN_HEIGHT,  \* config, imported at app.py:21
  API_THUMBNAIL_MAX_HEIGHT,  \* config, imported at app.py:19
  query,         \* the query parameters as received (app.py:98-101), never changed
  width,         \* local width
  height,        \* local height
  top_color,     \* local top_color: None, a str, then a tuple
  bottom_color,  \* local bottom_color: None, a str, then a tuple
  branch,        \* which branch of app.py:133-150 / 152-169 ran, per colour
  image,         \* the pixels of generate_gradient's image, image[y][x]
  y,             \* the loop variable of app.py:55
  text,          \* local text of each request
  font_size,     \* font_size of add_text_to_image (app.py:84), per request served
  pc             \* where the call stands

vars == <<API_THUMBNAIL_MIN_WIDTH, API_THUMBNAIL_MAX_WIDTH,
          API_THUMBNAIL_MIN_HEIGHT, API_THUMBNAIL_MAX_HEIGHT,
          query, width, height, top_color, bottom_color, branch,
          image, y, text, font_size, pc>>

config == <<API_THUMBNAIL_MIN_WIDTH, API_THUMBNAIL_MAX_WIDTH,
            API_THUMBNAIL_MIN_HEIGHT, API_THUMBNAIL_MAX_HEIGHT>>

\* Python values of the colour parameters
None == [tag |-> "None", val |-> <<>>]

Str(s) == [tag |-> "str", val |-> s]

Tuple(t) == [tag |-> "tuple", val |-> t]

\* the requests served side by side in the font-size specification
Requests == {"a", "b"}

\* ---- bounds of the model ----
MaxDim == 3

MaxSmallHeight == 8

MaxSmallWidth == 2

MaxTextLen == 52

\* the values random.randint(0, 255) is let to return
RandomSamples == {0, 255}

RandomColors == {<<r, g, b>> : r \in RandomSamples, g \in RandomSamples, b \in RandomSamples}

\* ------------------------------------------------------------------------
\* Specification SpecDims: get_thumbnail up to app.py:130
\* ------------------------------------------------------------------------
FarInputs == {-1000, 630, 1200}

DimInputs == ((0 - MaxDim)..(2 * MaxDim + 1)) \cup FarInputs

DimLimits == {p \in (1..MaxDim) \X (1..MaxDim) : p[1] <= p[2]}

IdleGradient == image = <<>> /\ y = 0

IdleText == text = [r \in Requests |-> <<>>] /\ font_size = <<>>

InitDims ==
  /\ \E w \in DimLimits, h \in DimLimits :
       /\ API_THUMBNAIL_MIN_WIDTH = w[1]
       /\ API_THUMBNAIL_MAX_WIDTH = w[2]
       /\ API_THUMBNAIL_MIN_HEIGHT = h[1]
       /\ API_THUMBNAIL_MAX_HEIGHT = h[2]
  /\ \E w \in DimInputs, h \in DimInputs :
       /\ query = [width |-> w, height |-> h, top_color |-> None, bottom_color |-> None]
       /\ width = w
       /\ height = h
  /\ top_color = None
  /\ bottom_color = None
  /\ branch = [top |-> "unset", bottom |-> "unset"]
  /\ IdleGradient
  /\ IdleText
  /\ pc = "dims"

\* app.py:111-130
NormalizeDimensions ==
  /\ pc = "dims"
  /\ width' = NormalizedWidth(width, API_THUMBNAIL_MIN_WIDTH, API_THUMBNAIL_MAX_WIDTH)
  /\ height' = NormalizedHeight(height, API_THUMBNAIL_MIN_HEIGHT, API_THUMBNAIL_MAX_HEIGHT)
  /\ pc' = "colors"
  /\ UNCHANGED <<config, query, top_color, bottom_color, branch, image, y, text, font_size>>

NextDims == NormalizeDimensions

SpecDims == InitDims /\ [][NextDims]_vars

\* C1: once get_thumbnail has normalised the dimensions (MIN <= MAX configured),
\* the width handed on lies in [API_THUMBNAIL_MIN_WIDTH, API_THUMBNAIL_MAX_WIDTH]
\* and the height in [API_THUMBNAIL_MIN_HEIGHT, API_THUMBNAIL_MAX_HEIGHT],
\* whatever integers the caller sent.
C1_DimensionsInRange ==
  pc = "colors" =>
    /\ API_THUMBNAIL_MIN_WIDTH <= width
    /\ width <= API_THUMBNAIL_MAX_WIDTH
    /\ API_THUMBNAIL_MIN_HEIGHT <= height
    /\ height <= API_THUMBNAIL_MAX_HEIGHT

\* a negative width and a height far above the maximum have been normalised
C1_Witness ==
  /\ pc = "colors"
  /\ query.width < 0
  /\ query.height > 100 * API_THUMBNAIL_MAX_HEIGHT

\* the reference of C2: nearest bound outside the open interval, identity inside
ReferenceNormalize(v, lo, hi) ==
  IF lo < v /\ v < hi THEN v
  ELSE IF v <= lo
       THEN (IF Abs(v - lo) > Abs(v - hi) THEN hi ELSE lo)
       ELSE (IF Abs(v - hi) > Abs(v - lo) THEN lo ELSE hi)

\* C2: with MIN < MAX the normalised width and height equal the reference
\* (identity strictly inside, otherwise the bound that is not the further one),
\* and width=1, height=1 below both minimums come out as MIN_WIDTH x MIN_HEIGHT.
C2_NormalizeMatchesReference ==
  pc = "colors" =>
    /\ API_THUMBNAIL_MIN_WIDTH < API_THUMBNAIL_MAX_WIDTH =>
         width = ReferenceNormalize(query.width, API_THUMBNAIL_MIN_WIDTH,
                                    API_THUMBNAIL_MAX_WIDTH)
    /\ API_THUMBNAIL_MIN_HEIGHT < API_THUMBNAIL_MAX_HEIGHT =>
         height = ReferenceNormalize(query.height, API_THUMBNAIL_MIN_HEIGHT,
                                     API_THUMBNAIL_MAX_HEIGHT)
    /\ ( /\ query.width = 1 /\ 1 < API_THUMBNAIL_MIN_WIDTH
         /\ API_THUMBNAIL_MIN_WIDTH < API_THUMBNAIL_MAX_WIDTH
         /\ query.height = 1 /\ 1 < API_THUMBNAIL_MIN_HEIGHT
         /\ API_THUMBNAIL_MIN_HEIGHT < API_THUMBNAIL_MAX_HEIGHT )
       => (width = API_THUMBNAIL_MIN_WIDTH /\ height = API_THUMBNAIL_MIN_HEIGHT)

\* a 1 x 1 request below both minimums has been normalised
C2_Witness ==
  /\ pc = "colors"
  /\ query.width = 1 /\ 1 < API_THUMBNAIL_MIN_WIDTH
  /\ API_THUMBNAIL_MIN_WIDTH < API_THUMBNAIL_MAX_WIDTH
  /\ query.height = 1 /\ 1 < API_THUMBNAIL_MIN_HEIGHT
  /\ API_THUMBNAIL_MIN_HEIGHT < API_THUMBNAIL_MAX_HEIGHT
  /\ width = API_THUMBNAIL_MIN_WIDTH
  /\ height = API_THUMBNAIL_MIN_HEIGHT

\* ------------------------------------------------------------------------
\* Specification SpecColors: get_thumbnail, app.py:132-169
\* ------------------------------------------------------------------------

\* two-character pieces the colour strings of the model are built from
Tokens == { <<"f", "f">>, <<"F", "F">>, <<"0", "0">>, <<"z", "z">>,
            <<"-", "f">>, <<" ", "1">>, <<"0", "x">>, <<"f">>, <<>> }

Prefixes == { <<>>, <<"#">>, <<"#", "#">> }

Suffixes == { <<>>, <<"9">> }

ColorStrings ==
  {p \o a \o b \o c \o t : p \in Prefixes, a \in Tokens, b \in Tokens, c \in Tokens,
                            t \in Suffixes}

\* "00ff00"
Green == Str(<<"0", "0", "f", "f", "0", "0">>)

\* one parameter runs over ColorStrings while the other is "00ff00"; the
\* parameters are also left out, one or both
ColorQueries ==
  {[top_color |-> Str(s), bottom_color |-> Green] : s \in ColorStrings}
  \cup
  {[top_color |-> Green, bottom_color |-> Str(s)] : s \in ColorStrings}
  \cup
  {[top_color |-> None, bottom_color |-> None],
   [top_color |-> None, bottom_color |-> Green],
   [top_color |-> Str(<<"z", "z">>), bottom_color |-> None]}

InitColors ==
  /\ API_THUMBNAIL_MIN_WIDTH = 1
  /\ API_THUMBNAIL_MAX_WIDTH = MaxDim
  /\ API_THUMBNAIL_MIN_HEIGHT = 1
  /\ API_THUMBNAIL_MAX_HEIGHT = MaxDim
  /\ width = MaxDim
  /\ height = 1
  /\ \E q \in ColorQueries :
       /\ query = [width |-> MaxDim, height |-> 1,
                   top_color |-> q.top_color, bottom_color |-> q.bottom_color]
       /\ top_color = q.top_color
       /\ bottom_color = q.bottom_color
  /\ branch = [top |-> "unset", bottom |-> "unset"]
  /\ IdleGradient
  /\ IdleText
  /\ pc = "colors"

\* app.py:133-150
ResolveTopColor ==
  /\ pc = "colors"
  /\ \/ /\ top_color.tag = "None"
        /\ \E c \in RandomColors : top_color' = Tuple(c)
        /\ branch' = [branch EXCEPT !.top = "absent"]
     \/ /\ top_color.tag = "str"
        /\ ParseHexColor(top_color.val).ok
        /\ top_color' = Tuple(ParseHexColor(top_color.val).rgb)
        /\ branch' = [branch EXCEPT !.top = "parsed"]
     \/ /\ top_color.tag = "str"
        /\ ~ParseHexColor(top_color.val).ok
        /\ \E c \in RandomColors : top_color' = Tuple(c)
        /\ branch' = [branch EXCEPT !.top = "except"]
  /\ pc' = "bottom_color"
  /\ UNCHANGED <<config, query, width, height, bottom_color, image, y, text, font_size>>

\* app.py:152-169
ResolveBottomColor ==
  /\ pc = "bottom_color"
  /\ \/ /\ bottom_color.tag = "None"
        /\ \E c \in RandomColors : bottom_color' = Tuple(c)
        /\ branch' = [branch EXCEPT !.bottom = "absent"]
     \/ /\ bottom_color.tag = "str"
        /\ ParseHexColor(bottom_color.val).ok
        /\ bottom_color' = Tuple(ParseHexColor(bottom_color.val).rgb)
        /\ branch' = [branch EXCEPT !.bottom = "parsed"]
     \/ /\ bottom_color.tag = "str"
        /\ ~ParseHexColor(bottom_color.val).ok
        /\ \E c \in RandomColors : bottom_color' = Tuple(c)
        /\ branch' = [branch EXCEPT !.bottom = "except"]
  /\ pc' = "gradient"
  /\ UNCHANGED <<config, query, width, height, top_color, image, y, text, font_size>>

NextColors == ResolveTopColor \/ ResolveBottomColor

SpecColors == InitColors /\ [][NextColors]_vars

\* ---- the colour claims ----
QueryColor(k) == IF k = "top" THEN query.top_color ELSE query.bottom_color

LocalColor(k) == IF k = "top" THEN top_color ELSE bottom_color

Supplied(k) == branch[k] # "unset" /\ QueryColor(k).tag = "str"

HexLower == <<"0", "1", "2", "3", "4", "5", "6", "7", "8", "9",
              "a", "b", "c", "d", "e", "f">>

HexUpper == <<"0", "1", "2", "3", "4", "5", "6", "7", "8", "9",
              "A", "B", "C", "D", "E", "F">>

IsHexChar(c) == \E i \in 1..16 : HexLower[i] = c \/ HexUpper[i] = c

HexCharValue(c) == (CHOOSE i \in 1..16 : HexLower[i] = c \/ HexUpper[i] = c) - 1

\* the string without one leading '#'
WithoutHash(s) == IF s # <<>> /\ s[1] = "#" THEN Tail(s) ELSE s

\* exactly six hexadecimal digits after an optional leading '#'
IsSixHexDigits(s) ==
  /\ Len(WithoutHash(s)) = 6
  /\ \A i \in 1..6 : IsHexChar(WithoutHash(s)[i])

ByteAt(s, i) == 16 * HexCharValue(WithoutHash(s)[i]) + HexCharValue(WithoutHash(s)[i + 1])

DecodedTriple(s) == <<ByteAt(s, 1), ByteAt(s, 3), ByteAt(s, 5)>>

\* C3: a colour string of exactly six hex digits (any case, with or without a
\* leading '#') resolves to the triple of its three bytes and never takes the
\* random fallback, for top_color and bottom_color alike; "#FF0000" gives
\* (255, 0, 0) and "00ff00" gives (0, 255, 0).
C3_SixHexDigitsDecoded ==
  \A k \in {"top", "bottom"} :
    (Supplied(k) /\ IsSixHexDigits(QueryColor(k).val)) =>
      /\ branch[k] = "parsed"
      /\ LocalColor(k).val = DecodedTriple(QueryColor(k).val)
      /\ QueryColor(k).val = <<"#", "F", "F", "0", "0", "0", "0">>
           => LocalColor(k).val = <<255, 0, 0>>
      /\ QueryColor(k).val = <<"0", "0", "f", "f", "0", "0">>
           => LocalColor(k).val = <<0, 255, 0>>

\* top_color="#FF0000" and bottom_color="00ff00" have both been resolved
C3_Witness ==
  /\ pc = "gradient"
  /\ query.top_color.val = <<"#", "F", "F", "0", "0", "0", "0">>
  /\ query.bottom_color.val = <<"0", "0", "f", "f", "0", "0">>
  /\ top_color.val = <<255, 0, 0>>
  /\ bottom_color.val = <<0, 255, 0>>
  /\ branch = [top |-> "parsed", bottom |-> "parsed"]

\* C4: a malformed colour string (not exactly six hex digits after an optional
\* leading '#') resolves to a triple whose channels are all in 0..255.
C4_MalformedGivesValidTriple ==
  \A k \in {"top", "bottom"} :
    (Supplied(k) /\ ~IsSixHexDigits(QueryColor(k).val)) =>
      \A i \in 1..3 : LocalColor(k).val[i] \in 0..255

\* C5: a colour string of the wrong length or with a non-hex character takes
\* the random fallback; its triple is never decoded from the string.
C5_MalformedTakesFallback ==
  \A k \in {"top", "bottom"} :
    (Supplied(k) /\ ~IsSixHexDigits(QueryColor(k).val)) => branch[k] = "except"

\* ------------------------------------------------------------------------
\* Specification SpecGradient: generate_gradient as called at app.py:171
\* ------------------------------------------------------------------------
White == <<255, 255, 255>>

Black == <<0, 0, 0>>

\* (color1, color2) pairs: white to black, red to blue, and a pair with two
\* channels that do not change
ColorPairs == { <<White, Black>>, <<<<255, 0, 0>>, <<0, 0, 255>>>>,
                <<<<255, 85, 0>>, <<255, 85, 255>>>> }

\* heights around the place where 255 / height falls below 1, and the default
TallHeights == {254, 255, 256, 630}

GradientCalls ==
  {[width |-> w, height |-> h, colors |-> c] :
     w \in 1..MaxSmallWidth, h \in 1..MaxSmallHeight, c \in ColorPairs}
  \cup
  {[width |-> 1, height |-> h, colors |-> <<White, Black>>] : h \in TallHeights}

InitGradient ==
  /\ \E g \in GradientCalls :
       /\ width = g.width
       /\ height = g.height
       /\ top_color = Tuple(g.colors[1])
       /\ bottom_color = Tuple(g.colors[2])
       /\ query = [width |-> g.width, height |-> g.height,
                   top_color |-> None, bottom_color |-> None]
       /\ API_THUMBNAIL_MIN_WIDTH = 1
       /\ API_THUMBNAIL_MAX_WIDTH = g.width + 1
       /\ API_THUMBNAIL_MIN_HEIGHT = 1
       /\ API_THUMBNAIL_MAX_HEIGHT = g.height + 1
  /\ branch = [top |-> "absent", bottom |-> "absent"]
  /\ IdleGradient
  /\ IdleText
  /\ pc = "gradient"

\* app.py:53-54
CreateImage ==
  /\ pc = "gradient"
  /\ image' = NewImage(width, height)
  /\ y' = 0
  /\ pc' = "rows"
  /\ UNCHANGED <<config, query, width, height, top_color, bottom_color, branch,
                 text, font_size>>

\* app.py:55-58, one turn of the loop
DrawRow ==
  /\ pc = "rows"
  /\ y < height
  /\ image' = DrawLine(image, 0, y, width,
                       RowColor(top_color.val, bottom_color.val, y, height))
  /\ y' = y + 1
  /\ UNCHANGED <<config, query, width, height, top_color, bottom_color, branch,
                 text, font_size, pc>>

\* app.py:59
ReturnImage ==
  /\ pc = "rows"
  /\ y = height
  /\ pc' = "text"
  /\ UNCHANGED <<config, query, width, height, top_color, bottom_color, branch,
                 image, y, text, font_size>>

NextGradient == CreateImage \/ DrawRow \/ ReturnImage

SpecGradient == InitGradient /\ [][NextGradient]_vars

\* ---- the gradient claims ----
WhiteToBlack == top_color.val = White /\ bottom_color.val = Black

\* C6 as stated: for white to black, row 0 is pure white and the last row is
\* not exactly (0, 0, 0).
C6_LastRowNeverBlack ==
  (pc = "text" /\ WhiteToBlack) =>
    \A xx \in 0..(width - 1) :
      /\ image[0][xx] = White
      /\ image[height - 1][xx] # Black

\* C6 amended: for white to black, row 0 is pure white; the last row is a grey
\* (k, k, k) with k <= 255 / height, and it differs from (0, 0, 0) exactly
\* when height <= 254: from height 255 on the last row is exactly black.
C6_LastRowBlackFrom255 ==
  (pc = "text" /\ WhiteToBlack) =>
    \A xx \in 0..(width - 1) :
      /\ image[0][xx] = White
      /\ \E k \in 0..255 :
           /\ image[height - 1][xx] = <<k, k, k>>
           /\ k * height <= 255
           /\ (k >= 1) <=> (height <= 254)

\* a white to black gradient of height 255 has been drawn: its last row is black
C6_Witness ==
  /\ pc = "text"
  /\ WhiteToBlack
  /\ height = 255
  /\ image[0][0] = White
  /\ image[height - 1][0] = Black

Min(a, b) == IF a <= b THEN a ELSE b

Max(a, b) == IF a >= b THEN a ELSE b

\* C10: every channel of every row drawn lies between the two end colours'
\* channels, and the pixels of a row share one colour.
C10_RowsBetweenEndColours ==
  pc \in {"rows", "text"} =>
    \A yy \in 0..(y - 1) : \A xx \in 0..(width - 1) :
      /\ image[yy][xx] = image[yy][0]
      /\ \A i \in 1..3 :
           /\ Min(top_color.val[i], bottom_color.val[i]) <= image[yy][xx][i]
           /\ image[yy][xx][i] <= Max(top_color.val[i], bottom_color.val[i])

\* ------------------------------------------------------------------------
\* Specification SpecFont: app.py:177-178 and add_text_to_image (app.py:84),
\* for two requests served independently
\* ------------------------------------------------------------------------

\* a text of n characters with some '_' and '-' among the letters
TextOfLength(n) ==
  [i \in 1..n |-> IF i % 7 = 0 THEN "_" ELSE IF i % 5 = 0 THEN "-" ELSE "a"]

\* lengths around the place where the font size reaches 0
LongLengths == {2000, 2001}

Texts == {TextOfLength(n) : n \in (0..MaxTextLen) \cup LongLengths}

InitFont ==
  /\ API_THUMBNAIL_MIN_WIDTH = 1
  /\ API_THUMBNAIL_MAX_WIDTH = MaxDim
  /\ API_THUMBNAIL_MIN_HEIGHT = 1
  /\ API_THUMBNAIL_MAX_HEIGHT = MaxDim
  /\ width = 1
  /\ height = 1
  /\ query = [width |-> 1, height |-> 1, top_color |-> None, bottom_color |-> None]
  /\ top_color = Tuple(White)
  /\ bottom_color = Tuple(Black)
  /\ branch = [top |-> "absent", bottom |-> "absent"]
  /\ IdleGradient
  /\ text \in [Requests -> Texts]
  /\ font_size = <<>>
  /\ pc = "text"

\* app.py:177 and the font size of app.py:84 for request r
AddTextToImage(r) ==
  /\ pc = "text"
  /\ r \notin DOMAIN font_size
  /\ text' = [text EXCEPT ![r] = ReplaceSeparators(text[r])]
  /\ font_size' = (r :> get_font_size(ReplaceSeparators(text[r]))) @@ font_size
  /\ UNCHANGED <<config, query, width, height, top_color, bottom_color, branch,
                 image, y, pc>>

NextFont == \E r \in Requests : AddTextToImage(r)

SpecFont == InitFont /\ [][NextFont]_vars

\* ---- the font size claims ----
Served(r) == r \in DOMAIN font_size

\* |20 - length| of the text of request r
Deviation(r) == Abs(20 - Len(text[r]))

\* C7 as stated: 100 at length 20, and strictly larger for the text whose
\* length is nearer to 20.
C7_StrictlyDecreasing ==
  /\ \A r \in Requests : (Served(r) /\ Len(text[r]) = 20) => font_size[r] = 100
  /\ \A r1 \in Requests, r2 \in Requests :
       (Served(r1) /\ Served(r2) /\ Deviation(r1) < Deviation(r2))
         => font_size[r1] > font_size[r2]

\* C7 amended: 100 at length 20; the text whose length is nearer to 20 never
\* gets the smaller size, and gets a strictly larger one as long as the other
\* text's |20 - length| is at most 29.
C7_NeverIncreasing ==
  /\ \A r \in Requests : (Served(r) /\ Len(text[r]) = 20) => font_size[r] = 100
  /\ \A r1 \in Requests, r2 \in Requests :
       (Served(r1) /\ Served(r2) /\ Deviation(r1) < Deviation(r2))
         => /\ font_size[r1] >= font_size[r2]
            /\ Deviation(r2) <= 29 => font_size[r1] > font_size[r2]

\* texts of 49 and 50 characters have both been given size 40
C7_Witness ==
  /\ Served("a") /\ Served("b")
  /\ Len(text["a"]) = 49 /\ Len(text["b"]) = 50
  /\ font_size["a"] = 40 /\ font_size["b"] = 40

\* n / d rounded to the nearest integer, halves to the even one (Python's round)
RoundedQuotient(n, d) ==
  LET q == n \div d
      r == n % d
  IN  IF 2 * r > d THEN q + 1
      ELSE IF 2 * r < d THEN q
      ELSE IF q % 2 = 0 THEN q ELSE q + 1

\* C8 as stated: the font size is 2000 / (20 + |20 - length|) rounded to the
\* nearest integer.
C8_FontSizeRounded ==
  \A r \in Requests :
    Served(r) => font_size[r] = RoundedQuotient(2000, 20 + Deviation(r))

\* C8 amended: the font size is 2000 / (20 + |20 - length|) truncated to an
\* integer (int(), not round()).
C8_FontSizeTruncated ==
  \A r \in Requests :
    Served(r) => font_size[r] = 2000 \div (20 + Deviation(r))

\* a text of 18 characters has been given size 90 (90.909... rounds to 91)
C8_Witness ==
  /\ Served("a")
  /\ Len(text["a"]) = 18
  /\ font_size["a"] = 90

\* C9: the font size handed to the font loader is at least 1 for every text.
C9_FontSizePositive ==
  \A r \in Requests : Served(r) => font_size[r] >= 1

====
